---- MODULE Spec2Model ----
(***************************************************************************)
(* Model of src/ADXL345.py: the AccelerometerTester acceptance sequence.   *)
(*                                                                         *)
(* Accelerations are fixed-point integers in units of 1e-4 g, so the scale *)
(* 0.0039 g/LSB is 39 and the bound 1.2 g is 12000.  Every value the       *)
(* sensor can deliver is 39 * count; none of them is closer than 1e-4 g to *)
(* a threshold, so the comparisons agree with the binary floating point    *)
(* comparisons of the source.                                              *)
(***************************************************************************)
EXTENDS Integers, Sequences, FiniteSets, TLC

\* Number of times run_test is invoked on the one AccelerometerTester.
MaxRuns == 2

----------------------------------------------------------------------------
\* Module-level constants of the source.

ADXL345_ADDRESS == 83
REG_BW_RATE == 44
REG_POWER_CTL == 45
REG_DATA_FORMAT == 49
REG_DATAX0 == 50
BW_RATE_800HZ == 13
DATA_FORMAT_NORMAL == 11
DATA_FORMAT_SELF_TEST == 139
POWER_CTL_MEASURE == 8
ACCEL_SCALE == 39

SELF_TEST_THRESHOLDS ==
  [x |-> <<-12000, -9000>>, y |-> <<-12000, -9000>>, z |-> <<-10000, -7000>>]

\* The axes visited from z to x.
AxesReversed == <<"z", "y", "x">>

\* Iteration order of SELF_TEST_THRESHOLDS.items() and of the delta dict.
Axes == <<"x", "y", "z">>

\* The first two calls exchanged.
ProfilesSwapped == <<"sharp_turn", "slow_climb", "quick_drop">>

\* slow_climb passed twice, sharp_turn never.
ProfilesRepeated == <<"slow_climb", "slow_climb", "quick_drop">>

\* The three _actuator_test calls of run_test, in program order.
Profiles == <<"slow_climb", "sharp_turn", "quick_drop">>

----------------------------------------------------------------------------
\* Values

NoSample == [x |-> 0, y |-> 0, z |-> 0]

\* failure_reason before any failure was captured (None in the source).
NoReason == [kind |-> "None", at |-> "-", msg |-> "-", axis |-> "-", val |-> <<>>]

\* An exception: its type and, for the ValueErrors of the checks, the check,
\* axis and formatted value(s) its message names.  traceback.format_exc()
\* adds the raising frame, at.
Reason(kind, msg, axis, val) ==
  [kind |-> kind, at |-> "-", msg |-> msg, axis |-> axis, val |-> val]

\* f"{v:.2f}" of a value in 1e-4 g: the value in 1e-2 g, rounded to nearest.
Fmt2(v) == IF v >= 0 THEN (v + 50) \div 100 ELSE -(((-v) + 50) \div 100)

\* Outcome of a check function: the raised ValueError, or a normal return.
Returned == [kind |-> "return", at |-> "-", msg |-> "-", axis |-> "-", val |-> <<>>]

----------------------------------------------------------------------------
\* struct.unpack('<hhh', bytes(data)) and the scaling of _read_acceleration

\* The 16 bits read as an unsigned count (format '<HHH').
S16Unsigned(u) == u

S16(u) == IF u >= 32768 THEN u - 65536 ELSE u

Unpackable(data) == Len(data) = 6

Unpack(data) ==
  [x |-> S16(data[1] + 256 * data[2]),
   y |-> S16(data[3] + 256 * data[4]),
   z |-> S16(data[5] + 256 * data[6])]

Scale(counts) ==
  [x |-> counts.x * ACCEL_SCALE, y |-> counts.y * ACCEL_SCALE, z |-> counts.z * ACCEL_SCALE]

----------------------------------------------------------------------------
\* Responses of the bus to the 6-byte read of REG_DATAX0.

\* Two's-complement little-endian bytes of one 16-bit count, as the sensor
\* puts them on the bus.
LE16(c) == <<(c % 65536) % 256, (c % 65536) \div 256>>

Buf(x, y, z) == LE16(x) \o LE16(y) \o LE16(z)

SampleBuffers ==
  { Buf(0, 0, 0),
    Buf(-260, -260, -200),
    Buf(-307, -231, -256),
    Buf(-308, -260, -200),
    Buf(-100, -260, -200),
    Buf(-260, -400, -200),
    Buf(-260, -260, -300),
    Buf(-100, -400, -300),
    Buf(0, 100, 1800),
    Buf(0, 600, 1800),
    Buf(0, 100, 1000),
    Buf(0, 600, 1000),
    Buf(1300, 1300, 0),
    Buf(1300, 1000, 0),
    Buf(0, 0, -2100),
    Buf(0, 0, -2000),
    Buf(32767, -32768, -1),
    <<0, 0, 0, 0, 0>>,
    <<0, 0, 0, 0, 0, 0, 0>> }

----------------------------------------------------------------------------
\* The check functions

\* Both ends excluded.
InBandOpen(lo, v, hi) == lo < v /\ v < hi

InBand(lo, v, hi) == lo <= v /\ v <= hi

Delta(st, base) == [x |-> st.x - base.x, y |-> st.y - base.y, z |-> st.z - base.z]

\* The threshold loop of _perform_self_test: raises at the first axis, in
\* dict order, whose delta is outside its band; the message gives the axis,
\* the delta to two decimals and the band.
RECURSIVE SelfTestLoop(_, _)
SelfTestLoop(delta, i) ==
  IF i > Len(Axes) THEN Returned
  ELSE LET axis == Axes[i]
           band == SELF_TEST_THRESHOLDS[axis]
       IN IF ~InBand(band[1], delta[axis], band[2])
            THEN Reason("ValueError", "self_test", axis,
                        <<Fmt2(delta[axis]), band[1], band[2]>>)
            ELSE SelfTestLoop(delta, i + 1)

SelfTestEval(st, base) == SelfTestLoop(Delta(st, base), 1)

\* z examined before y.
CheckSlowClimbZFirst(a) ==
  IF ~(60000 <= a.z /\ a.z <= 80000)
    THEN Reason("ValueError", "slow_climb", "z", <<Fmt2(a.z)>>)
  ELSE IF ~(-10000 <= a.y /\ a.y <= 10000)
    THEN Reason("ValueError", "slow_climb", "y", <<Fmt2(a.y)>>)
  ELSE Returned

_check_slow_climb(a) ==
  IF ~(-10000 <= a.y /\ a.y <= 10000)
    THEN Reason("ValueError", "slow_climb", "y", <<Fmt2(a.y)>>)
  ELSE IF ~(60000 <= a.z /\ a.z <= 80000)
    THEN Reason("ValueError", "slow_climb", "z", <<Fmt2(a.z)>>)
  ELSE Returned

\* Bounds not strict.
CheckSharpTurnInclusive(a) ==
  IF ~(a.x >= 50000 /\ a.y >= 50000)
    THEN Reason("ValueError", "sharp_turn", "xy", <<Fmt2(a.x), Fmt2(a.y)>>)
  ELSE Returned

_check_sharp_turn(a) ==
  IF ~(a.x > 50000 /\ a.y > 50000)
    THEN Reason("ValueError", "sharp_turn", "xy", <<Fmt2(a.x), Fmt2(a.y)>>)
  ELSE Returned

\* Bound not strict.
CheckQuickDropInclusive(a) ==
  IF ~(a.z <= -80000)
    THEN Reason("ValueError", "quick_drop", "z", <<Fmt2(a.z)>>)
  ELSE Returned

_check_quick_drop(a) ==
  IF ~(a.z < -80000)
    THEN Reason("ValueError", "quick_drop", "z", <<Fmt2(a.z)>>)
  ELSE Returned

\* check_func(accel) for the callback passed with each profile in run_test.
CheckFunc(config, a) ==
  CASE config = "slow_climb" -> _check_slow_climb(a)
    [] config = "sharp_turn" -> _check_sharp_turn(a)
    [] config = "quick_drop" -> _check_quick_drop(a)

----------------------------------------------------------------------------
\* State

VARIABLES
  pc,              \* position of the thread of control in run_test
  run,             \* number of run_test invocations started on this tester
  prof,            \* index in Profiles of the next _actuator_test call
  board,           \* self.board: NoBoard, or the ZipTestBoard made in run n
  test_passed,     \* self.test_passed
  failure_reason,  \* self.failure_reason
  baseline,        \* local of _perform_self_test
  st_reading,      \* local of _perform_self_test
  accel,           \* local of _actuator_test
  data,            \* local of _read_acceleration: the last bus response
  trace,           \* fixture calls, sleeps and prints of the current run
  report,          \* lines printed by _log_result in the current run
  raisedAt,        \* position whose statement raised in the current run
  propagated,      \* an exception left run_test
  checked,         \* check function applied (pure-function specification)
  verdict          \* its outcome

vars == <<pc, run, prof, board, test_passed, failure_reason, baseline,
          st_reading, accel, data, trace, report, raisedAt, propagated, checked,
          verdict>>

NoBoard == 0

\* No response received yet in this run.
NoData == <<>>

Ev(op, arg, reg, val, resp_len, ok) ==
  [op |-> op, arg |-> arg, reg |-> reg, val |-> val, resp_len |-> resp_len, ok |-> ok]

\* self.board.i2c_cmd(ADXL345_ADDRESS, [reg, val])
WriteEv(reg, val, ok) == Ev("i2c_cmd", "write", reg, val, 0, ok)

\* self.board.i2c_cmd(ADXL345_ADDRESS, [REG_DATAX0], resp_len=6)
ReadEv(ok) == Ev("i2c_cmd", "read", REG_DATAX0, -1, 6, ok)

CallEv(op, arg, ok) == Ev(op, arg, -1, -1, 0, ok)

----------------------------------------------------------------------------
\* Control flow of run_test

\* The rail switched off before the result is printed.
NextPcPowerOffFirst(p, k) ==
  CASE p = "new_board"   -> "turn_on"
    [] p = "turn_on"     -> "i2c_setup"
    [] p = "i2c_setup"   -> "cfg_rate"
    [] p = "cfg_rate"    -> "cfg_format"
    [] p = "cfg_format"  -> "cfg_power"
    [] p = "cfg_power"   -> "cfg_sleep"
    [] p = "cfg_sleep"   -> "st_normal"
    [] p = "st_normal"   -> "st_sleep1"
    [] p = "st_sleep1"   -> "st_baseline"
    [] p = "st_baseline" -> "st_enable"
    [] p = "st_enable"   -> "st_sleep2"
    [] p = "st_sleep2"   -> "st_reading"
    [] p = "st_reading"  -> "st_restore"
    [] p = "st_restore"  -> "st_eval"
    [] p = "st_eval"     -> "act_move"
    [] p = "act_move"    -> "act_read"
    [] p = "act_read"    -> "act_check"
    [] p = "act_check"   -> IF k < Len(Profiles) THEN "act_move" ELSE "set_passed"
    [] p = "set_passed"  -> "teardown"
    [] p = "log"         -> "done"
    [] p = "teardown"    -> "log"

\* The statement after p when p completes normally.
NextPc(p, k) ==
  CASE p = "new_board"   -> "turn_on"
    [] p = "turn_on"     -> "i2c_setup"
    [] p = "i2c_setup"   -> "cfg_rate"
    [] p = "cfg_rate"    -> "cfg_format"
    [] p = "cfg_format"  -> "cfg_power"
    [] p = "cfg_power"   -> "cfg_sleep"
    [] p = "cfg_sleep"   -> "st_normal"
    [] p = "st_normal"   -> "st_sleep1"
    [] p = "st_sleep1"   -> "st_baseline"
    [] p = "st_baseline" -> "st_enable"
    [] p = "st_enable"   -> "st_sleep2"
    [] p = "st_sleep2"   -> "st_reading"
    [] p = "st_reading"  -> "st_restore"
    [] p = "st_restore"  -> "st_eval"
    [] p = "st_eval"     -> "act_move"
    [] p = "act_move"    -> "act_read"
    [] p = "act_read"    -> "act_check"
    [] p = "act_check"   -> IF k < Len(Profiles) THEN "act_move" ELSE "set_passed"
    [] p = "set_passed"  -> "log"
    [] p = "log"         -> "teardown"
    [] p = "teardown"    -> "done"

\* The exception is swallowed where it is raised and the chain goes on.
ExceptTargetResume(p, k) == NextPc(p, k)

\* Where control goes when the statement at p raises inside the try block:
\* the except clause and then the finally clause, whatever p is.
ExceptTarget(p, k) == "log"

\* Guard inverted.
NeedsPowerOffInverted(b) == b = NoBoard

\* if self.board:
NeedsPowerOff(b) == b # NoBoard

\* No handler around turn_off_ps.
TeardownEscapesUnhandled(raised) == raised

\* except Exception: pass  around turn_off_ps
TeardownEscapes(raised) == FALSE

\* test_passed ignored.
LogVerdictAlwaysPassed(tp) == "PASSED"

\* The branch of _log_result.
LogVerdict(tp) == IF tp THEN "PASSED" ELSE "FAILED"

Normal ==
  /\ pc' = NextPc(pc, prof)
  /\ UNCHANGED <<failure_reason, raisedAt>>

\* except Exception: self.failure_reason = traceback.format_exc()
Caught(reason) ==
  /\ failure_reason' = [reason EXCEPT !.at = pc]
  /\ raisedAt' = pc
  /\ pc' = ExceptTarget(pc, prof)

InTry(p) == pc = p /\ ~propagated

----------------------------------------------------------------------------
\* run_test

Init ==
  /\ pc = "idle"
  /\ run = 0
  /\ prof = 1
  /\ board = NoBoard
  /\ test_passed = FALSE
  /\ failure_reason = NoReason
  /\ baseline = NoSample
  /\ st_reading = NoSample
  /\ accel = NoSample
  /\ data = NoData
  /\ trace = <<>>
  /\ report = <<>>
  /\ raisedAt = "none"
  /\ propagated = FALSE
  /\ checked = "none"
  /\ verdict = Returned

\* A call of run_test on the tester: at first on the fresh object, later
\* after an earlier call has returned.
StartRun ==
  /\ pc \in {"idle", "done"}
  /\ ~propagated
  /\ run < MaxRuns
  /\ run' = run + 1
  /\ pc' = "new_board"
  /\ prof' = 1
  /\ trace' = <<>>
  /\ report' = <<>>
  /\ raisedAt' = "none"
  /\ baseline' = NoSample
  /\ st_reading' = NoSample
  /\ accel' = NoSample
  /\ data' = NoData
  /\ UNCHANGED <<board, test_passed, failure_reason, propagated, checked, verdict>>

\* self.board = ZipTestBoard()
NewBoard ==
  /\ InTry("new_board")
  /\ \E ok \in BOOLEAN :
       IF ok THEN board' = run /\ Normal
             ELSE UNCHANGED board /\ Caught(Reason("BoardError", "-", "-", <<>>))
  /\ UNCHANGED <<data, report, run, prof, test_passed, baseline, st_reading, accel, trace,
                 propagated, checked, verdict>>

\* A fixture call at position p that returns nothing the program uses.
FixtureCall(p, ev, errkind) ==
  /\ InTry(p)
  /\ \E ok \in BOOLEAN :
       /\ trace' = Append(trace, [ev EXCEPT !.ok = ok])
       /\ IF ok THEN Normal ELSE Caught(Reason(errkind, "-", "-", <<>>))
  /\ UNCHANGED <<data, report, run, prof, board, test_passed, baseline, st_reading, accel,
                 propagated, checked, verdict>>

\* time.sleep(0.1)
Sleep(p) ==
  /\ InTry(p)
  /\ trace' = Append(trace, CallEv("sleep", "0.1", TRUE))
  /\ Normal
  /\ UNCHANGED <<data, report, run, prof, board, test_passed, baseline, st_reading, accel,
                 propagated, checked, verdict>>

TurnOn == FixtureCall("turn_on", CallEv("turn_on_ps", "3V3", TRUE), "PowerError")

I2cSetup == FixtureCall("i2c_setup", CallEv("i2c_setup", "400000", TRUE), "BusSetupError")

\* _configure_accelerometer
CfgRate == FixtureCall("cfg_rate", WriteEv(REG_BW_RATE, BW_RATE_800HZ, TRUE), "TransportError")

CfgFormat == FixtureCall("cfg_format", WriteEv(REG_DATA_FORMAT, DATA_FORMAT_NORMAL, TRUE), "TransportError")

CfgPower == FixtureCall("cfg_power", WriteEv(REG_POWER_CTL, POWER_CTL_MEASURE, TRUE), "TransportError")

CfgSleep == Sleep("cfg_sleep")

\* _read_acceleration: the bus read, the unpacking and the scaling.  The
\* result is Returned with the sample, or the exception raised.
ReadResult(ok, resp) ==
  IF ~ok THEN [exc |-> Reason("TransportError", "-", "-", <<>>), sample |-> NoSample]
  ELSE IF ~Unpackable(resp) THEN [exc |-> Reason("struct.error", "-", "-", <<>>), sample |-> NoSample]
  ELSE [exc |-> Returned, sample |-> Scale(Unpack(resp))]

\* _perform_self_test
StNormal == FixtureCall("st_normal", WriteEv(REG_DATA_FORMAT, DATA_FORMAT_NORMAL, TRUE), "TransportError")

StSleep1 == Sleep("st_sleep1")

StBaseline ==
  /\ InTry("st_baseline")
  /\ \E ok \in BOOLEAN, resp \in SampleBuffers :
       LET r == ReadResult(ok, resp) IN
       /\ trace' = Append(trace, ReadEv(ok))
       /\ data' = IF ok THEN resp ELSE data
       /\ IF r.exc = Returned
            THEN baseline' = r.sample /\ Normal
            ELSE UNCHANGED baseline /\ Caught(r.exc)
  /\ UNCHANGED <<report, run, prof, board, test_passed, st_reading, accel,
                 propagated, checked, verdict>>

\* The self-test bit left out of the mode write.
StEnableWithoutSelfTest ==
  FixtureCall("st_enable", WriteEv(REG_DATA_FORMAT, DATA_FORMAT_NORMAL, TRUE), "TransportError")

StEnable == FixtureCall("st_enable", WriteEv(REG_DATA_FORMAT, DATA_FORMAT_SELF_TEST, TRUE), "TransportError")

StSleep2 == Sleep("st_sleep2")

StReading ==
  /\ InTry("st_reading")
  /\ \E ok \in BOOLEAN, resp \in SampleBuffers :
       LET r == ReadResult(ok, resp) IN
       /\ trace' = Append(trace, ReadEv(ok))
       /\ data' = IF ok THEN resp ELSE data
       /\ IF r.exc = Returned
            THEN st_reading' = r.sample /\ Normal
            ELSE UNCHANGED st_reading /\ Caught(r.exc)
  /\ UNCHANGED <<report, run, prof, board, test_passed, baseline, accel,
                 propagated, checked, verdict>>

\* The self-test mode written again instead of the normal mode.
StRestoreSelfTest ==
  FixtureCall("st_restore", WriteEv(REG_DATA_FORMAT, DATA_FORMAT_SELF_TEST, TRUE), "TransportError")

StRestore == FixtureCall("st_restore", WriteEv(REG_DATA_FORMAT, DATA_FORMAT_NORMAL, TRUE), "TransportError")

StEval ==
  /\ InTry("st_eval")
  /\ LET r == SelfTestEval(st_reading, baseline) IN
       IF r = Returned THEN Normal ELSE Caught(r)
  /\ UNCHANGED <<data, report, run, prof, board, test_passed, baseline, st_reading, accel,
                 trace, propagated, checked, verdict>>

\* _actuator_test(config, check_func)
ActMove ==
  FixtureCall("act_move", CallEv("actuator_move", Profiles[prof], TRUE), "ActuatorError")

ActRead ==
  /\ InTry("act_read")
  /\ \E ok \in BOOLEAN, resp \in SampleBuffers :
       LET r == ReadResult(ok, resp) IN
       /\ trace' = Append(trace, ReadEv(ok))
       /\ data' = IF ok THEN resp ELSE data
       /\ IF r.exc = Returned
            THEN accel' = r.sample /\ Normal
            ELSE UNCHANGED accel /\ Caught(r.exc)
  /\ UNCHANGED <<report, run, prof, board, test_passed, baseline, st_reading,
                 propagated, checked, verdict>>

ActCheck ==
  /\ InTry("act_check")
  /\ LET r == CheckFunc(Profiles[prof], accel) IN
       IF r = Returned
         THEN /\ Normal
              /\ prof' = IF prof < Len(Profiles) THEN prof + 1 ELSE prof
         ELSE Caught(r) /\ UNCHANGED prof
  /\ UNCHANGED <<data, report, run, board, test_passed, baseline, st_reading, accel, trace,
                 propagated, checked, verdict>>

\* self.test_passed = True
SetPassed ==
  /\ InTry("set_passed")
  /\ test_passed' = TRUE
  /\ Normal
  /\ UNCHANGED <<data, report, run, prof, board, baseline, st_reading, accel, trace,
                 propagated, checked, verdict>>

\* _log_result, first statement of the finally clause
LogResult ==
  /\ InTry("log")
  /\ trace' = Append(trace, CallEv("print", LogVerdict(test_passed), TRUE))
  /\ report' = Append(report, [verdict |-> LogVerdict(test_passed),
                               reason  |-> IF test_passed THEN NoReason
                                                          ELSE failure_reason])
  /\ Normal
  /\ UNCHANGED <<data, run, prof, board, test_passed, baseline, st_reading, accel,
                 propagated, checked, verdict>>

\* The rest of the finally clause: the guarded, protected turn_off_ps("3V3")
Teardown ==
  /\ InTry("teardown")
  /\ IF NeedsPowerOff(board)
       THEN \E ok \in BOOLEAN :
              /\ trace' = Append(trace, CallEv("turn_off_ps", "3V3", ok))
              /\ propagated' = TeardownEscapes(~ok)
       ELSE UNCHANGED <<trace, propagated>>
  /\ Normal
  /\ UNCHANGED <<data, report, run, prof, board, test_passed, baseline, st_reading, accel,
                 checked, verdict>>

Next ==
  \/ StartRun \/ NewBoard \/ TurnOn \/ I2cSetup
  \/ CfgRate \/ CfgFormat \/ CfgPower \/ CfgSleep
  \/ StNormal \/ StSleep1 \/ StBaseline \/ StEnable \/ StSleep2
  \/ StReading \/ StRestore \/ StEval
  \/ ActMove \/ ActRead \/ ActCheck
  \/ SetPassed \/ LogResult \/ Teardown

Spec == Init /\ [][Next]_vars

----------------------------------------------------------------------------
\* The check functions on their own: inputs drawn from grids around every
\* threshold, one application of one check function.

GridX == {-1, 0, 49999, 50000, 50001, 60000}

GridY == {-10001, -10000, 0, 5000, 10000, 10001, 20000, 50000, 50001}

GridZ == {-80001, -80000, -79999, 0, 59999, 60000, 70000, 80000, 80001}

GridBase == {0, 5000}

GridDeltaXY == {-12001, -12000, -10000, -9000, -8999}

GridDeltaZ == {-10001, -10000, -8000, -7000, -6999}

\* Bytes around the sign bit and the ends of the byte range.
ByteGrid == {0, 1, 127, 128, 255}

\* Bus responses to the read: every 6-byte buffer over ByteGrid, and a
\* short and a long one.
DecodeBuffers ==
  [1..6 -> ByteGrid] \cup {<<1, 128, 255, 0, 127>>, <<1, 128, 255, 0, 127, 1, 255>>}

Shifted(base, d) == [x |-> base.x + d.x, y |-> base.y + d.y, z |-> base.z + d.z]

CheckInitCommon ==
  /\ run = 0
  /\ prof = 1
  /\ board = NoBoard
  /\ test_passed = FALSE
  /\ failure_reason = NoReason
  /\ trace = <<>>
  /\ report = <<>>
  /\ raisedAt = "none"
  /\ propagated = FALSE
  /\ checked = "none"
  /\ verdict = Returned

CheckInit ==
  /\ CheckInitCommon
  /\ \/ /\ pc = "check_motion"
        /\ accel \in [x : GridX, y : GridY, z : GridZ]
        /\ baseline = NoSample
        /\ st_reading = NoSample
        /\ data = NoData
     \/ /\ pc = "check_read"
        /\ accel = NoSample
        /\ baseline = NoSample
        /\ st_reading = NoSample
        /\ data \in DecodeBuffers
     \/ /\ pc = "check_self_test"
        /\ accel = NoSample
        /\ data = NoData
        /\ baseline \in [x : GridBase, y : GridBase, z : GridBase]
        /\ \E d \in [x : GridDeltaXY, y : GridDeltaXY, z : GridDeltaZ] :
             st_reading = Shifted(baseline, d)

Apply(name, result) ==
  /\ checked' = name
  /\ verdict' = result
  /\ pc' = "checked"
  /\ UNCHANGED <<data, run, prof, board, test_passed, failure_reason, baseline,
                 st_reading, accel, trace, report, raisedAt, propagated>>

ApplySelfTest == pc = "check_self_test" /\ Apply("self_test", SelfTestEval(st_reading, baseline))

ApplySlowClimb == pc = "check_motion" /\ Apply("slow_climb", _check_slow_climb(accel))

ApplySharpTurn == pc = "check_motion" /\ Apply("sharp_turn", _check_sharp_turn(accel))

ApplyQuickDrop == pc = "check_motion" /\ Apply("quick_drop", _check_quick_drop(accel))

\* _read_acceleration on a response the bus returned.
ApplyRead ==
  /\ pc = "check_read"
  /\ LET r == ReadResult(TRUE, data) IN
       /\ accel' = r.sample
       /\ verdict' = r.exc
  /\ checked' = "read"
  /\ pc' = "checked"
  /\ UNCHANGED <<run, prof, board, test_passed, failure_reason, baseline,
                 st_reading, data, trace, report, raisedAt, propagated>>

CheckNext ==
  ApplySelfTest \/ ApplySlowClimb \/ ApplySharpTurn \/ ApplyQuickDrop \/ ApplyRead

SpecCheck == CheckInit /\ [][CheckNext]_vars

----------------------------------------------------------------------------
\* Observations used by the properties

CountIn(tr, op) == Cardinality({i \in 1..Len(tr) : tr[i].op = op})

\* Positions of _perform_self_test whose statement can raise.
SelfTestPositions ==
  {"st_normal", "st_baseline", "st_enable", "st_reading", "st_restore", "st_eval"}

\* The run has returned from run_test.
Returned_from_run == pc = "done"

\* The result has been reported in the current run.
Reported == pc \in {"teardown", "done"}

\* Every call of the chain was issued and returned: power-on, bus setup,
\* 3 configuration writes, 3 mode writes and 2 reads of the self-test, and
\* for each of the 3 profiles one actuator command and one read.
AllStepsCompleted ==
  /\ raisedAt = "none"
  /\ CountIn(trace, "turn_on_ps") = 1
  /\ CountIn(trace, "i2c_setup") = 1
  /\ CountIn(trace, "i2c_cmd") = 11
  /\ CountIn(trace, "actuator_move") = 3
  /\ \A i \in 1..Len(trace) : trace[i].op # "turn_off_ps" => trace[i].ok

----------------------------------------------------------------------------
\* C1 (as stated): in every run, on every exit path, also when fixture
\* construction fails, turn_off_ps is invoked exactly once.
C1_PowerOffExactlyOnce ==
  Returned_from_run => CountIn(trace, "turn_off_ps") = 1

\* C1 (amended): a run that ends with a board held by the tester invokes
\* turn_off_ps exactly once, wherever the failure occurred; a run that ends
\* without a board (construction failed on a fresh tester) invokes it never.
C1_PowerOffOncePerHeldBoard ==
  Returned_from_run =>
    /\ (board # NoBoard => CountIn(trace, "turn_off_ps") = 1)
    /\ (board = NoBoard => CountIn(trace, "turn_off_ps") = 0 /\ raisedAt = "new_board")
    /\ (raisedAt # "new_board" => CountIn(trace, "turn_off_ps") = 1)

\* Power-on itself failed and the rail was switched off once.
C1_Witness ==
  /\ Returned_from_run
  /\ raisedAt = "turn_on"
  /\ CountIn(trace, "turn_off_ps") = 1

\* C2: when the self-test step raised (bus error, malformed sample or delta
\* out of band), no actuator command is issued in that run.
C2_NoActuatorAfterSelfTestFailure ==
  raisedAt \in SelfTestPositions => CountIn(trace, "actuator_move") = 0

\* A run that failed in the delta evaluation has returned with no actuator
\* command issued.
C2_Witness ==
  /\ Returned_from_run
  /\ raisedAt = "st_eval"
  /\ CountIn(trace, "actuator_move") = 0

C4_OneReportPassedIffAllSteps ==
  run = 1 =>
    /\ (~Reported => Len(report) = 0 /\ CountIn(trace, "print") = 0)
    /\ (Reported =>
          /\ Len(report) = 1
          /\ CountIn(trace, "print") = 1
          /\ report[1].verdict \in {"PASSED", "FAILED"}
          /\ (report[1].verdict = "PASSED" <=> AllStepsCompleted))

\* A fresh tester ran the whole chain and reported PASSED.
C4_Witness ==
  /\ run = 1
  /\ Returned_from_run
  /\ AllStepsCompleted
  /\ report[1].verdict = "PASSED"

\* C5 (as stated): when the result is reported nothing has left run_test and
\* either test_passed holds with no failure_reason, or test_passed does not
\* hold and failure_reason is the description captured in this run.
C5_ExactlyOneOutcomeMutation ==
  Reported =>
    /\ ~propagated
    /\ \/ test_passed /\ failure_reason = NoReason
       \/ ~test_passed /\ failure_reason # NoReason /\ failure_reason.at = raisedAt

\* C6: the teardown step returns from run_test normally whether or not
\* turn_off_ps raises, and leaves the reported line and the recorded outcome
\* as they were before it.
C6_TeardownFailureSwallowed ==
  [][pc = "teardown" =>
       /\ pc' = "done"
       /\ ~propagated'
       /\ report' = report
       /\ test_passed' = test_passed
       /\ failure_reason' = failure_reason]_vars

\* turn_off_ps raised and run_test returned normally with its one report.
C6_Witness ==
  /\ Returned_from_run
  /\ ~propagated
  /\ Len(report) = 1
  /\ Len(trace) > 0
  /\ trace[Len(trace)].op = "turn_off_ps"
  /\ ~trace[Len(trace)].ok

\* C7: the self-test evaluation returns normally exactly when
\* st.x - base.x and st.y - base.y are in [-1.2, -0.9] and st.z - base.z is
\* in [-1.0, -0.7], ends included.
C7_SelfTestBands ==
  checked = "self_test" =>
    (verdict = Returned <=>
       /\ -12000 <= st_reading.x - baseline.x /\ st_reading.x - baseline.x <= -9000
       /\ -12000 <= st_reading.y - baseline.y /\ st_reading.y - baseline.y <= -9000
       /\ -10000 <= st_reading.z - baseline.z /\ st_reading.z - baseline.z <= -7000)

\* Deltas exactly on interval ends, over a non-zero baseline, accepted.
C7_Witness ==
  /\ checked = "self_test"
  /\ verdict = Returned
  /\ baseline.x # 0
  /\ st_reading.x - baseline.x = -12000
  /\ st_reading.y - baseline.y = -9000
  /\ st_reading.z - baseline.z = -10000

\* C8: the slow-climb check returns normally exactly when y is in [-1, 1]
\* and z is in [6, 8]; whenever y is out of range the error names y.
C8_SlowClimb ==
  checked = "slow_climb" =>
    /\ (verdict = Returned <=>
          /\ -10000 <= accel.y /\ accel.y <= 10000
          /\ 60000 <= accel.z /\ accel.z <= 80000)
    /\ (~(-10000 <= accel.y /\ accel.y <= 10000) => verdict.axis = "y")

\* y and z both out of range, the error names y.
C8_Witness ==
  /\ checked = "slow_climb"
  /\ accel.y = 20000
  /\ accel.z = 0
  /\ verdict.axis = "y"

\* C9: the sharp-turn check returns normally exactly when x > 5 and y > 5.
C9_SharpTurn ==
  checked = "sharp_turn" =>
    (verdict = Returned <=> accel.x > 50000 /\ accel.y > 50000)

\* x exactly 5.0 with y above 5.0 is rejected.
C9_Witness ==
  /\ checked = "sharp_turn"
  /\ accel.x = 50000
  /\ accel.y = 50001
  /\ verdict # Returned

\* C10: the quick-drop check returns normally exactly when z < -8.
C10_QuickDrop ==
  checked = "quick_drop" => (verdict = Returned <=> accel.z < -80000)

\* z exactly -8.0 is rejected.
C10_Witness ==
  /\ checked = "quick_drop"
  /\ accel.z = -80000
  /\ verdict # Returned

----------------------------------------------------------------------------
\* Observations on the call trace of the current run

\* Positions whose statement is a call of _read_acceleration.
ReadPositions == {"st_baseline", "st_reading", "act_read"}

IsRead(e) == e.op = "i2c_cmd" /\ e.arg = "read"

IsFormatWrite(e) == e.op = "i2c_cmd" /\ e.arg = "write" /\ e.reg = REG_DATA_FORMAT

\* Indices of the trace events satisfying a test, in increasing order.
ReadIdx == {i \in 1..Len(trace) : IsRead(trace[i])}

FormatIdx == {i \in 1..Len(trace) : IsFormatWrite(trace[i])}

MoveIdx == {i \in 1..Len(trace) : trace[i].op = "actuator_move"}

Max(S) == CHOOSE m \in S : \A n \in S : n <= m

\* The bus answered the last read with a buffer that is not 6 bytes long.
Malformed == data # NoData /\ Len(data) # 6

----------------------------------------------------------------------------
\* C11 (as stated): when the bus returns a buffer whose length is not 6, the
\* read raises and yields no sample, no later step is executed, and the run
\* is reported FAILED.
C11_MalformedReadFailsRun ==
  Malformed =>
    /\ raisedAt \in ReadPositions
    /\ failure_reason.kind = "struct.error"
    /\ failure_reason.at = raisedAt
    /\ (raisedAt = "st_baseline" => baseline = NoSample)
    /\ (raisedAt = "st_reading" => st_reading = NoSample)
    /\ (raisedAt = "act_read" /\ prof = 1 => accel = NoSample)
    /\ pc \in {"log", "teardown", "done"}
    /\ \A i \in 1..Len(trace) :
         i > Max(ReadIdx) => trace[i].op \in {"print", "turn_off_ps"}
    /\ (Reported => report[1].verdict = "FAILED")

\* C12: a 6-byte buffer b is read as x = s16(b[0] + 256*b[1]),
\* y = s16(b[2] + 256*b[3]), z = s16(b[4] + 256*b[5]), two's complement with
\* the low byte first, each count in [-32768, 32767] and multiplied by the
\* scale 0.0039; the sample is a function of the buffer alone.
C12_DecodeLittleEndianSigned ==
  (checked = "read" /\ Len(data) = 6) =>
    LET cx == ((data[1] + 256 * data[2] + 32768) % 65536) - 32768
        cy == ((data[3] + 256 * data[4] + 32768) % 65536) - 32768
        cz == ((data[5] + 256 * data[6] + 32768) % 65536) - 32768
    IN /\ verdict = Returned
       /\ accel = [x |-> 39 * cx, y |-> 39 * cy, z |-> 39 * cz]
       /\ \A a \in {accel.x, accel.y, accel.z} : -32768 * 39 <= a /\ a <= 32767 * 39

\* The counts -1, -32768 and 32767 decoded from ff ff, 00 80 and ff 7f.
C12_Witness ==
  /\ checked = "read"
  /\ data = <<255, 255, 0, 128, 255, 127>>
  /\ accel = [x |-> -39, y |-> -1277952, z |-> 1277913]

----------------------------------------------------------------------------
\* What a call is, without its outcome.
Sig(e) == <<e.op, e.arg, e.reg, e.val>>

\* Number of events of the run before its print: the calls of the chain.
ChainLen ==
  IF \E i \in 1..Len(trace) : trace[i].op = "print"
    THEN (CHOOSE i \in 1..Len(trace) : trace[i].op = "print") - 1
    ELSE Len(trace)

\* The run reached line 71: no statement of the try block raised.
PassingRun == Reported /\ raisedAt = "none"

\* C13: the calls of a run are a prefix of the one fixed sequence power-on,
\* bus setup, BW_RATE, DATA_FORMAT normal, POWER_CTL measure, the self-test,
\* slow_climb, sharp_turn, quick_drop, each call issued only after all
\* earlier ones returned; the passing path issues them all; the print
\* follows the chain.
C13_FixedStepOrder ==
  LET expected ==
        << <<"turn_on_ps", "3V3", -1, -1>>,
           <<"i2c_setup", "400000", -1, -1>>,
           <<"i2c_cmd", "write", REG_BW_RATE, BW_RATE_800HZ>>,
           <<"i2c_cmd", "write", REG_DATA_FORMAT, DATA_FORMAT_NORMAL>>,
           <<"i2c_cmd", "write", REG_POWER_CTL, POWER_CTL_MEASURE>>,
           <<"sleep", "0.1", -1, -1>>,
           <<"i2c_cmd", "write", REG_DATA_FORMAT, DATA_FORMAT_NORMAL>>,
           <<"sleep", "0.1", -1, -1>>,
           <<"i2c_cmd", "read", REG_DATAX0, -1>>,
           <<"i2c_cmd", "write", REG_DATA_FORMAT, DATA_FORMAT_SELF_TEST>>,
           <<"sleep", "0.1", -1, -1>>,
           <<"i2c_cmd", "read", REG_DATAX0, -1>>,
           <<"i2c_cmd", "write", REG_DATA_FORMAT, DATA_FORMAT_NORMAL>>,
           <<"actuator_move", "slow_climb", -1, -1>>,
           <<"i2c_cmd", "read", REG_DATAX0, -1>>,
           <<"actuator_move", "sharp_turn", -1, -1>>,
           <<"i2c_cmd", "read", REG_DATAX0, -1>>,
           <<"actuator_move", "quick_drop", -1, -1>>,
           <<"i2c_cmd", "read", REG_DATAX0, -1>> >>
      n == ChainLen
  IN /\ n <= Len(expected)
     /\ \A i \in 1..n : Sig(trace[i]) = expected[i] /\ (i < n => trace[i].ok)
     /\ \A i \in 1..Len(trace) : i > n => trace[i].op \in {"print", "turn_off_ps"}
     /\ (PassingRun => n = Len(expected) /\ trace[n].ok)
     /\ (n >= 14 => SelfTestEval(st_reading, baseline) = Returned)
     /\ (Reported <=> n < Len(trace))

\* A run went through the whole chain and has returned.
C13_Witness ==
  /\ Returned_from_run
  /\ PassingRun
  /\ ChainLen = 19
  /\ trace[14].arg = "slow_climb"
  /\ trace[18].arg = "quick_drop"

----------------------------------------------------------------------------
\* The k-th smallest element of a set of indices.
RECURSIVE Nth(_, _)
Nth(S, k) ==
  LET m == CHOOSE i \in S : \A j \in S : i <= j
  IN IF k = 1 THEN m ELSE Nth(S \ {m}, k - 1)

\* The deltas of the self-test have been evaluated in this run.
Evaluated == raisedAt = "st_eval" \/ (raisedAt \notin SelfTestPositions /\ MoveIdx # {})

\* C14: in the self-test the baseline read directly follows a settle delay
\* that directly follows the write of the normal mode, the stimulated read
\* does so after the write of the self-test mode, which follows the baseline
\* read; the normal mode is written after the stimulated read and before the
\* deltas are evaluated.
C14_SelfTestOrder ==
  /\ Cardinality(ReadIdx) >= 1 =>
       LET r1 == Nth(ReadIdx, 1) IN
       /\ r1 >= 3
       /\ trace[r1 - 1].op = "sleep"
       /\ IsFormatWrite(trace[r1 - 2])
       /\ trace[r1 - 2].val = DATA_FORMAT_NORMAL
       /\ trace[r1 - 2].ok
       /\ \A i \in FormatIdx : i < r1 => trace[i].val = DATA_FORMAT_NORMAL
  /\ Cardinality(ReadIdx) >= 2 =>
       LET r1 == Nth(ReadIdx, 1)
           r2 == Nth(ReadIdx, 2)
       IN /\ r2 = r1 + 3
          /\ trace[r1].ok
          /\ trace[r2 - 1].op = "sleep"
          /\ IsFormatWrite(trace[r2 - 2])
          /\ trace[r2 - 2].val = DATA_FORMAT_SELF_TEST
          /\ trace[r2 - 2].ok
  /\ (pc = "st_eval" \/ Evaluated) =>
       LET r2 == Nth(ReadIdx, 2) IN
       /\ Cardinality(ReadIdx) >= 2
       /\ trace[r2].ok
       /\ Len(trace) > r2
       /\ IsFormatWrite(trace[r2 + 1])
       /\ trace[r2 + 1].val = DATA_FORMAT_NORMAL
       /\ trace[r2 + 1].ok
  /\ pc = "st_enable" => Cardinality(ReadIdx) = 1 /\ baseline = Scale(Unpack(data))
  /\ pc = "st_restore" => Cardinality(ReadIdx) = 2 /\ st_reading = Scale(Unpack(data))

\* Both samples taken, the normal mode restored, the deltas about to be
\* evaluated.
C14_Witness ==
  /\ pc = "st_eval"
  /\ Cardinality(ReadIdx) = 2
  /\ Cardinality(FormatIdx) = 4

\* C15: when the deltas are evaluated (the step then passing or raising the
\* out-of-band error) and when any actuator command is issued, the last
\* value written to DATA_FORMAT is the normal one, written after the second
\* read and before every actuator command.
C15_NormalModeRestored ==
  (pc = "st_eval" \/ Evaluated \/ MoveIdx # {}) =>
    /\ FormatIdx # {}
    /\ LET w == Max(FormatIdx) IN
         /\ trace[w].val = DATA_FORMAT_NORMAL
         /\ trace[w].ok
         /\ Cardinality(ReadIdx) >= 2 /\ w > Nth(ReadIdx, 2)
         /\ \A m \in MoveIdx : w < m

\* An out-of-band self-test ended with the sensor back in normal mode.
C15_Witness ==
  /\ Returned_from_run
  /\ raisedAt = "st_eval"
  /\ failure_reason.kind = "ValueError"
  /\ trace[Max(FormatIdx)].val = DATA_FORMAT_NORMAL
  /\ \E i \in FormatIdx : trace[i].val = DATA_FORMAT_SELF_TEST

\* C16: a self-test that fails in the evaluation reports the first axis, in
\* the order x, y, z, whose delta is out of band, with that delta and that
\* band, whatever the later axes are; the self-test is run at most once in a
\* run and nothing of it is repeated after the failure.
C16_FirstFailingAxisWins ==
  /\ Cardinality({i \in FormatIdx : trace[i].val = DATA_FORMAT_SELF_TEST}) <= 1
  /\ raisedAt = "st_eval" =>
       LET dx == st_reading.x - baseline.x
           dy == st_reading.y - baseline.y
           dz == st_reading.z - baseline.z
           xOut == dx < -12000 \/ dx > -9000
           yOut == dy < -12000 \/ dy > -9000
           zOut == dz < -10000 \/ dz > -7000
           first == IF xOut THEN "x" ELSE IF yOut THEN "y" ELSE "z"
           d == IF xOut THEN dx ELSE IF yOut THEN dy ELSE dz
           lo == IF xOut \/ yOut THEN -12000 ELSE -10000
           hi == IF xOut \/ yOut THEN -9000 ELSE -7000
       IN /\ xOut \/ yOut \/ zOut
          /\ failure_reason.kind = "ValueError"
          /\ failure_reason.msg = "self_test"
          /\ failure_reason.axis = first
          /\ Len(failure_reason.val) = 3
          /\ 100 * failure_reason.val[1] - d \in -50..50
          /\ failure_reason.val[2] = lo /\ failure_reason.val[3] = hi
          /\ Cardinality(ReadIdx) = 2
          /\ pc \in {"log", "teardown", "done"}

\* x in band, y and z both out of band: y is the axis reported.
C16_Witness ==
  /\ Returned_from_run
  /\ raisedAt = "st_eval"
  /\ InBand(-12000, st_reading.x - baseline.x, -9000)
  /\ ~InBand(-12000, st_reading.y - baseline.y, -9000)
  /\ ~InBand(-10000, st_reading.z - baseline.z, -7000)
  /\ failure_reason.axis = "y"

\* C17: every actuator command is one of the three profiles and no profile
\* is commanded twice in a run; a command that returned is followed directly
\* by exactly one read, whose sample is the one checked; no read after the
\* self-test happens without its command; a passing run has 3 commands, one
\* per profile, and 5 reads.
C17_OneCommandOneReadPerProfile ==
  LET names == {"slow_climb", "sharp_turn", "quick_drop"}
      moves(nm) == {m \in MoveIdx : trace[m].arg = nm}
  IN /\ \A m \in MoveIdx : trace[m].arg \in names
     /\ \A nm \in names : Cardinality(moves(nm)) <= 1
     /\ \A m \in MoveIdx :
          /\ Cardinality({r \in ReadIdx : r < m}) = 2 + Cardinality({k \in MoveIdx : k < m})
          /\ (trace[m].ok /\ m < Len(trace) => IsRead(trace[m + 1]))
          /\ (~trace[m].ok /\ m < Len(trace) => ~IsRead(trace[m + 1]))
     /\ \A r \in ReadIdx :
          Cardinality({q \in ReadIdx : q <= r}) > 2 =>
            trace[r - 1].op = "actuator_move" /\ trace[r - 1].ok
     /\ (pc = "act_check" \/ raisedAt = "act_check") =>
          /\ MoveIdx # {}
          /\ Max(ReadIdx) = Max(MoveIdx) + 1
          /\ trace[Max(ReadIdx)].ok
          /\ accel = Scale(Unpack(data))
          /\ Cardinality(ReadIdx) = 2 + Cardinality(MoveIdx)
     /\ PassingRun =>
          /\ Cardinality(MoveIdx) = 3
          /\ Cardinality(ReadIdx) = 5
          /\ \A nm \in names : Cardinality(moves(nm)) = 1

\* A passing run: 3 actuator commands and 5 reads.
C17_Witness ==
  /\ Returned_from_run
  /\ PassingRun
  /\ Cardinality(MoveIdx) = 3
  /\ Cardinality(ReadIdx) = 5

\* C18 (as stated): the outcome a run reports depends only on that run, also
\* on a tester that has run before: it is PASSED exactly when no statement
\* of this run raised, a failing run reports its own failure, and a passing
\* run leaves no failure reason on the tester.
C18_NoCrossRunState ==
  Reported =>
    /\ (report[1].verdict = "PASSED" <=> raisedAt = "none")
    /\ (raisedAt # "none" => report[1].reason.at = raisedAt)
    /\ (raisedAt = "none" => failure_reason = NoReason)

\* C19: the print precedes the power-off, the power-off is the last event of
\* its run, and from the start of teardown to the end of the run the printed
\* line and the recorded outcome do not change.
C19_ReportThenPowerOffLast ==
  /\ [](\A i \in 1..Len(trace) :
          trace[i].op = "turn_off_ps" =>
            /\ i = Len(trace)
            /\ i > 1 /\ trace[i - 1].op = "print"
            /\ Len(report) = 1
            /\ pc = "done")
  /\ [](pc = "teardown" => Len(report) = 1 /\ trace[Len(trace)].op = "print")
  /\ [][(pc \in {"teardown", "done"} /\ run' = run) =>
          /\ report' = report
          /\ test_passed' = test_passed
          /\ failure_reason' = failure_reason
          /\ CountIn(trace', "i2c_cmd") = CountIn(trace, "i2c_cmd")
          /\ CountIn(trace', "actuator_move") = CountIn(trace, "actuator_move")
          /\ CountIn(trace', "turn_on_ps") = CountIn(trace, "turn_on_ps")]_vars

\* A run whose last two events are the print and the power-off.
C19_Witness ==
  /\ Returned_from_run
  /\ Len(trace) > 1
  /\ trace[Len(trace)].op = "turn_off_ps"
  /\ trace[Len(trace) - 1].op = "print"

====
